---- MODULE Spec2Model ----
(***************************************************************************)
(* files/kubical/AWS-generate_k3s_config.py: one run of the script, from   *)
(* the interpreter loading the file to process exit.  The collaborators    *)
(* (instance metadata service, EC2 API) answer nondeterministically.       *)
(* Strings are tuples of code points, so that str.replace, str.startswith, *)
(* slicing and list.sort are computed as Python computes them.             *)
(***************************************************************************)
EXTENDS Integers, Sequences, FiniteSets, TLC

\* ---- bounds of the model ----
MaxTags == 2
MaxIfaces == 1
MaxAddresses == 1

\* ---- string literals of the source ----
\* "admission-control-config-file=/var/lib/rancher/k3s/server/psa.yaml"
ApiArg1 ==
    <<97, 100, 109, 105, 115, 115, 105, 111, 110, 45, 99, 111, 110, 116, 114, 111, 108, 45, 99, 111, 110, 102, 105, 103, 45, 102, 105, 108, 101, 61, 47, 118, 97, 114, 47, 108, 105, 98, 47, 114, 97, 110, 99, 104, 101, 114, 47, 107, 51, 115, 47, 115, 101, 114, 118, 101, 114, 47, 112, 115, 97, 46, 121, 97, 109, 108>>
\* "audit-log-path=/var/lib/rancher/k3s/server/logs/audit.log"
ApiArg2 ==
    <<97, 117, 100, 105, 116, 45, 108, 111, 103, 45, 112, 97, 116, 104, 61, 47, 118, 97, 114, 47, 108, 105, 98, 47, 114, 97, 110, 99, 104, 101, 114, 47, 107, 51, 115, 47, 115, 101, 114, 118, 101, 114, 47, 108, 111, 103, 115, 47, 97, 117, 100, 105, 116, 46, 108, 111, 103>>
\* "audit-policy-file=/var/lib/rancher/k3s/server/audit.yaml"
ApiArg3 ==
    <<97, 117, 100, 105, 116, 45, 112, 111, 108, 105, 99, 121, 45, 102, 105, 108, 101, 61, 47, 118, 97, 114, 47, 108, 105, 98, 47, 114, 97, 110, 99, 104, 101, 114, 47, 107, 51, 115, 47, 115, 101, 114, 118, 101, 114, 47, 97, 117, 100, 105, 116, 46, 121, 97, 109, 108>>
\* "audit-log-maxage=30"
ApiArg4 ==
    <<97, 117, 100, 105, 116, 45, 108, 111, 103, 45, 109, 97, 120, 97, 103, 101, 61, 51, 48>>
\* "audit-log-maxbackup=10"
ApiArg5 ==
    <<97, 117, 100, 105, 116, 45, 108, 111, 103, 45, 109, 97, 120, 98, 97, 99, 107, 117, 112, 61, 49, 48>>
\* "audit-log-maxsize=100"
ApiArg6 ==
    <<97, 117, 100, 105, 116, 45, 108, 111, 103, 45, 109, 97, 120, 115, 105, 122, 101, 61, 49, 48, 48>>
\* "provider-id="
KubeletProviderId ==
    <<112, 114, 111, 118, 105, 100, 101, 114, 45, 105, 100, 61>>
\* "aws://"
AwsScheme ==
    <<97, 119, 115, 58, 47, 47>>
\* "/"
Slash ==
    <<47>>
\* "max-pods=110"
KubeletArg2 ==
    <<109, 97, 120, 45, 112, 111, 100, 115, 61, 49, 49, 48>>
\* "kube-reserved=cpu=100m,memory=500Mi"
KubeletArg3 ==
    <<107, 117, 98, 101, 45, 114, 101, 115, 101, 114, 118, 101, 100, 61, 99, 112, 117, 61, 49, 48, 48, 109, 44, 109, 101, 109, 111, 114, 121, 61, 53, 48, 48, 77, 105>>
\* "system-reserved=cpu=100m,memory=500Mi"
KubeletArg4 ==
    <<115, 121, 115, 116, 101, 109, 45, 114, 101, 115, 101, 114, 118, 101, 100, 61, 99, 112, 117, 61, 49, 48, 48, 109, 44, 109, 101, 109, 111, 114, 121, 61, 53, 48, 48, 77, 105>>
\* "eviction-hard=memory.available<100Mi,nodefs.available<10%"
KubeletArg5 ==
    <<101, 118, 105, 99, 116, 105, 111, 110, 45, 104, 97, 114, 100, 61, 109, 101, 109, 111, 114, 121, 46, 97, 118, 97, 105, 108, 97, 98, 108, 101, 60, 49, 48, 48, 77, 105, 44, 110, 111, 100, 101, 102, 115, 46, 97, 118, 97, 105, 108, 97, 98, 108, 101, 60, 49, 48, 37>>
\* "topology.kubernetes.io/region="
LblRegion ==
    <<116, 111, 112, 111, 108, 111, 103, 121, 46, 107, 117, 98, 101, 114, 110, 101, 116, 101, 115, 46, 105, 111, 47, 114, 101, 103, 105, 111, 110, 61>>
\* "topology.kubernetes.io/zone="
LblZone ==
    <<116, 111, 112, 111, 108, 111, 103, 121, 46, 107, 117, 98, 101, 114, 110, 101, 116, 101, 115, 46, 105, 111, 47, 122, 111, 110, 101, 61>>
\* "node.kubernetes.io/instance-type="
LblInstanceType ==
    <<110, 111, 100, 101, 46, 107, 117, 98, 101, 114, 110, 101, 116, 101, 115, 46, 105, 111, 47, 105, 110, 115, 116, 97, 110, 99, 101, 45, 116, 121, 112, 101, 61>>
\* "node.kubernetes.io/instance-family="
LblInstanceFamily ==
    <<110, 111, 100, 101, 46, 107, 117, 98, 101, 114, 110, 101, 116, 101, 115, 46, 105, 111, 47, 105, 110, 115, 116, 97, 110, 99, 101, 45, 102, 97, 109, 105, 108, 121, 61>>
\* "node.kubernetes.io/instance-size="
LblInstanceSize ==
    <<110, 111, 100, 101, 46, 107, 117, 98, 101, 114, 110, 101, 116, 101, 115, 46, 105, 111, 47, 105, 110, 115, 116, 97, 110, 99, 101, 45, 115, 105, 122, 101, 61>>
\* "karpenter.sh/capacity-type="
LblCapacityType ==
    <<107, 97, 114, 112, 101, 110, 116, 101, 114, 46, 115, 104, 47, 99, 97, 112, 97, 99, 105, 116, 121, 45, 116, 121, 112, 101, 61>>
\* "kubernetes.io/arch="
LblArch ==
    <<107, 117, 98, 101, 114, 110, 101, 116, 101, 115, 46, 105, 111, 47, 97, 114, 99, 104, 61>>
\* "kubernetes.io/os=linux"
LblOsLinux ==
    <<107, 117, 98, 101, 114, 110, 101, 116, 101, 115, 46, 105, 111, 47, 111, 115, 61, 108, 105, 110, 117, 120>>
\* "failure-domain.beta.kubernetes.io/region="
LblLegacyRegion ==
    <<102, 97, 105, 108, 117, 114, 101, 45, 100, 111, 109, 97, 105, 110, 46, 98, 101, 116, 97, 46, 107, 117, 98, 101, 114, 110, 101, 116, 101, 115, 46, 105, 111, 47, 114, 101, 103, 105, 111, 110, 61>>
\* "failure-domain.beta.kubernetes.io/zone="
LblLegacyZone ==
    <<102, 97, 105, 108, 117, 114, 101, 45, 100, 111, 109, 97, 105, 110, 46, 98, 101, 116, 97, 46, 107, 117, 98, 101, 114, 110, 101, 116, 101, 115, 46, 105, 111, 47, 122, 111, 110, 101, 61>>
\* "beta.kubernetes.io/instance-type="
LblLegacyInstanceType ==
    <<98, 101, 116, 97, 46, 107, 117, 98, 101, 114, 110, 101, 116, 101, 115, 46, 105, 111, 47, 105, 110, 115, 116, 97, 110, 99, 101, 45, 116, 121, 112, 101, 61>>
\* "cylzae.com/public-ip="
LblPublicIp ==
    <<99, 121, 108, 122, 97, 101, 46, 99, 111, 109, 47, 112, 117, 98, 108, 105, 99, 45, 105, 112, 61>>
\* "cylzae.com/public-ip-type="
LblPublicIpType ==
    <<99, 121, 108, 122, 97, 101, 46, 99, 111, 109, 47, 112, 117, 98, 108, 105, 99, 45, 105, 112, 45, 116, 121, 112, 101, 61>>
\* "cylzae.com/punchkicker-role="
LblPunchkickerRole ==
    <<99, 121, 108, 122, 97, 101, 46, 99, 111, 109, 47, 112, 117, 110, 99, 104, 107, 105, 99, 107, 101, 114, 45, 114, 111, 108, 101, 61>>
\* "elastic"
StrElastic ==
    <<101, 108, 97, 115, 116, 105, 99>>
\* "ephemeral"
StrEphemeral ==
    <<101, 112, 104, 101, 109, 101, 114, 97, 108>>
\* "spot"
StrSpot ==
    <<115, 112, 111, 116>>
\* "on-demand"
StrOnDemand ==
    <<111, 110, 45, 100, 101, 109, 97, 110, 100>>
\* "unknown"
StrUnknown ==
    <<117, 110, 107, 110, 111, 119, 110>>
\* "punchkicker-role"
StrPunchkickerRole ==
    <<112, 117, 110, 99, 104, 107, 105, 99, 107, 101, 114, 45, 114, 111, 108, 101>>
\* "::"
StrColonColon ==
    <<58, 58>>
\* "label/"
StrLabelPrefix ==
    <<108, 97, 98, 101, 108, 47>>
\* "taint/"
StrTaintPrefix ==
    <<116, 97, 105, 110, 116, 47>>
\* "="
StrEq ==
    <<61>>
\* "."
StrDot ==
    <<46>>
\* "x86_64"
StrX86 ==
    <<120, 56, 54, 95, 54, 52>>
\* "amd64"
StrAmd64 ==
    <<97, 109, 100, 54, 52>>
\* "aarch64"
StrAarch64 ==
    <<97, 97, 114, 99, 104, 54, 52>>
\* "arm64"
StrArm64 ==
    <<97, 114, 109, 54, 52>>
\* "armv7l"
StrArmv7l ==
    <<97, 114, 109, 118, 55, 108>>
\* "arm"
StrArm ==
    <<97, 114, 109>>
\* ---- input values drawn by the model (strings as tuples of code points) ----
\* "i-abc"
InInstanceId ==
    <<105, 45, 97, 98, 99>>
\* "us-east-1a"
InAz ==
    <<117, 115, 45, 101, 97, 115, 116, 45, 49, 97>>
\* "us-east-1"
InRegion ==
    <<117, 115, 45, 101, 97, 115, 116, 45, 49>>
\* "t3.micro"
InInstanceType ==
    <<116, 51, 46, 109, 105, 99, 114, 111>>
\* "1.2.3.4"
InPublicIp ==
    <<49, 46, 50, 46, 51, 46, 52>>
\* "5.6.7.8"
InOtherIp ==
    <<53, 46, 54, 46, 55, 46, 56>>
\* "label::foo"
TagLabelColonFoo ==
    <<108, 97, 98, 101, 108, 58, 58, 102, 111, 111>>
\* "taint/dedicated"
TagTaintDedicated ==
    <<116, 97, 105, 110, 116, 47, 100, 101, 100, 105, 99, 97, 116, 101, 100>>
\* "taint::special"
TagTaintColonSpecial ==
    <<116, 97, 105, 110, 116, 58, 58, 115, 112, 101, 99, 105, 97, 108>>
\* "Name"
TagName ==
    <<78, 97, 109, 101>>
\* "label/cylzae.com/public-ip-type"
TagLabelPublicIpType ==
    <<108, 97, 98, 101, 108, 47, 99, 121, 108, 122, 97, 101, 46, 99, 111, 109, 47, 112, 117, 98, 108, 105, 99, 45, 105, 112, 45, 116, 121, 112, 101>>
\* "bar"
ValBar ==
    <<98, 97, 114>>

\* Python's None (no code point is negative)
None == <<-1>>

\* truthiness of an optional string: None and '' are falsy
Truthy(s) == s # None /\ s # <<>>

\* ---- str / list / dict primitives ----
StartsWith(s, p) == Len(s) >= Len(p) /\ SubSeq(s, 1, Len(p)) = p

\* s[n:]
DropPrefix(s, n) == SubSeq(s, n + 1, Len(s))

\* s.replace(old, new): leftmost non-overlapping occurrences, old non-empty
RECURSIVE Replace(_, _, _)
Replace(s, old, new) ==
    IF Len(s) < Len(old) THEN s
    ELSE IF StartsWith(s, old)
         THEN new \o Replace(DropPrefix(s, Len(old)), old, new)
         ELSE <<s[1]>> \o Replace(Tail(s), old, new)

\* s.split(sep) for a one-character separator
RECURSIVE Split(_, _)
Split(s, sep) ==
    IF \A i \in 1..Len(s) : s[i] # sep[1] THEN <<s>>
    ELSE LET i == CHOOSE j \in 1..Len(s) :
                      s[j] = sep[1] /\ \A k \in 1..(j - 1) : s[k] # sep[1]
         IN <<SubSeq(s, 1, i - 1)>> \o Split(DropPrefix(s, i), sep)

\* a <= b for str: code point by code point, a proper prefix comes first
RECURSIVE StrLeFrom(_, _, _)
StrLeFrom(a, b, i) ==
    IF i > Len(a) THEN TRUE
    ELSE IF i > Len(b) THEN FALSE
    ELSE IF a[i] # b[i] THEN a[i] < b[i]
    ELSE StrLeFrom(a, b, i + 1)

StrLe(a, b) == StrLeFrom(a, b, 1)

\* list.insert(i, x), 0-based index i
ListInsert(l, i, x) ==
    IF i >= Len(l) THEN Append(l, x)
    ELSE SubSeq(l, 1, i) \o <<x>> \o SubSeq(l, i + 1, Len(l))

RECURSIVE InsertSorted(_, _)
InsertSorted(l, x) ==
    IF l = <<>> THEN <<x>>
    ELSE IF StrLe(x, l[1]) THEN <<x>> \o l
    ELSE <<l[1]>> \o InsertSorted(Tail(l), x)

\* list.sort() on a list of str: the ascending permutation
RECURSIVE ListSort(_)
ListSort(l) ==
    IF l = <<>> THEN <<>> ELSE InsertSorted(ListSort(Tail(l)), l[1])

\* a dict is the sequence of its <<key, value>> items in insertion order
DictHas(d, k) == \E i \in 1..Len(d) : d[i][1] = k

DictGet(d, k) == d[CHOOSE i \in 1..Len(d) : d[i][1] = k][2]

\* d[k] = v
DictSet(d, k, v) ==
    IF DictHas(d, k)
    THEN [i \in 1..Len(d) |-> IF d[i][1] = k THEN <<k, v>> ELSE d[i]]
    ELSE Append(d, <<k, v>>)

\* ---- pure functions of the script ----
get_arch(machine) ==
    IF machine = StrX86 THEN StrAmd64
    ELSE IF machine = StrAarch64 THEN StrArm64
    ELSE IF machine = StrArmv7l THEN StrArm
    ELSE machine

parse_instance_type(t) ==
    LET parts == Split(t, StrDot)
    IN IF Len(parts) = 2 THEN <<parts[1], parts[2]>> ELSE <<t, StrUnknown>>

\* get_capacity_type, given the lifecycle the metadata service returned
ClassifyLifecycle(lifecycle) ==
    IF lifecycle = StrSpot THEN StrSpot ELSE StrOnDemand

\* the loop of get_instance_tags over instance.get('Tags', [])
RECURSIVE TagsToDict(_)
TagsToDict(tags) ==
    IF tags = <<>> THEN <<>>
    ELSE LET n == Len(tags)
         IN DictSet(TagsToDict(SubSeq(tags, 1, n - 1)), tags[n][1], tags[n][2])

\* a network interface of the describe_instances answer
Iface(has_assoc, ip, has_alloc) ==
    [has_assoc |-> has_assoc, public_ip |-> ip, has_alloc |-> has_alloc]

\* the loop of is_elastic_ip over the interfaces: the first interface whose
\* association has the public IP decides
RECURSIVE ScanInterfaces(_, _)
ScanInterfaces(ifaces, ip) ==
    IF ifaces = <<>> THEN [matched |-> FALSE, result |-> FALSE]
    ELSE IF ifaces[1].has_assoc /\ ifaces[1].public_ip = ip
         THEN [matched |-> TRUE, result |-> ifaces[1].has_alloc]
         ELSE ScanInterfaces(Tail(ifaces), ip)

\* ---- generate_k3s_config: building the config (lines 130-196) ----
BoolField(b) == [type |-> "bool", val |-> b]

ListField(l) == [type |-> "list", val |-> l]

KubeApiserverArg == <<ApiArg1, ApiArg2, ApiArg3, ApiArg4, ApiArg5, ApiArg6>>

KubeletArg(az, id) ==
    <<KubeletProviderId \o AwsScheme \o az \o Slash \o id,
      KubeletArg2, KubeletArg3, KubeletArg4, KubeletArg5>>

BaseLabels(reg, zone, itype, machine, capacity) ==
    LET fs == parse_instance_type(itype)
    IN <<LblRegion \o reg,
         LblZone \o zone,
         LblInstanceType \o itype,
         LblInstanceFamily \o fs[1],
         LblInstanceSize \o fs[2],
         LblCapacityType \o capacity,
         LblArch \o get_arch(machine),
         LblOsLinux,
         LblLegacyRegion \o reg,
         LblLegacyZone \o zone,
         LblLegacyInstanceType \o itype>>

\* PublicIpLabels without the test of line 166
PublicIpLabelsAlways(labels, ip, eip) ==
    ListInsert(ListInsert(labels, 5, LblPublicIp \o ip), 6,
               LblPublicIpType \o (IF eip THEN StrElastic ELSE StrEphemeral))

\* lines 166-170
PublicIpLabels(labels, ip, eip) ==
    IF Truthy(ip)
    THEN ListInsert(ListInsert(labels, 5, LblPublicIp \o ip), 6,
                    LblPublicIpType \o (IF eip THEN StrElastic ELSE StrEphemeral))
    ELSE labels

\* lines 173-175
RoleLabel(labels, tags) ==
    IF DictHas(tags, StrPunchkickerRole)
    THEN Append(labels, LblPunchkickerRole \o DictGet(tags, StrPunchkickerRole))
    ELSE labels

\* TagStep without the replace of line 180
TagStepRawKey(acc, item) ==
    LET tag == item[1]
    IN IF StartsWith(tag, StrLabelPrefix)
       THEN [acc EXCEPT !.labels = Append(@, DropPrefix(tag, 6) \o StrEq \o item[2])]
       ELSE IF StartsWith(tag, StrTaintPrefix)
            THEN [acc EXCEPT !.taints = Append(@, DropPrefix(tag, 6) \o StrEq \o item[2])]
            ELSE acc

\* one iteration of the loop of lines 179-187
TagStep(acc, item) ==
    LET tag == Replace(item[1], StrColonColon, Slash)
    IN IF StartsWith(tag, StrLabelPrefix)
       THEN [acc EXCEPT !.labels = Append(@, DropPrefix(tag, 6) \o StrEq \o item[2])]
       ELSE IF StartsWith(tag, StrTaintPrefix)
            THEN [acc EXCEPT !.taints = Append(@, DropPrefix(tag, 6) \o StrEq \o item[2])]
            ELSE acc

RECURSIVE TagLoop(_, _)
TagLoop(items, acc) ==
    IF items = <<>> THEN acc ELSE TagLoop(Tail(items), TagStep(acc, items[1]))

\* TaintField without the test of line 189
TaintFieldAlways(cfg, taints) ==
    [k \in DOMAIN cfg \cup {"node-taint"} |->
        IF k = "node-taint" THEN ListField(taints) ELSE cfg[k]]

\* lines 189-190
TaintField(cfg, taints) ==
    IF taints # <<>>
    THEN [k \in DOMAIN cfg \cup {"node-taint"} |->
             IF k = "node-taint" THEN ListField(taints) ELSE cfg[k]]
    ELSE cfg

\* SortLists sorting the node labels only
SortListsNodeLabelOnly(cfg) ==
    [k \in DOMAIN cfg |->
        IF k = "node-label" THEN ListField(ListSort(cfg[k].val)) ELSE cfg[k]]

\* lines 192-194
SortLists(cfg) ==
    [k \in DOMAIN cfg |->
        IF cfg[k].type = "list" THEN ListField(ListSort(cfg[k].val)) ELSE cfg[k]]

MakeConfig(id, zone, reg, itype, ip, machine, capacity, eip, tags) ==
    LET labels == RoleLabel(PublicIpLabels(
                      BaseLabels(reg, zone, itype, machine, capacity), ip, eip), tags)
        acc == TagLoop(tags, [labels |-> labels, taints |-> <<>>])
        cfg == [k \in {"protect-kernel-defaults", "secrets-encryption",
                       "kube-apiserver-arg", "kubelet-arg", "node-label"} |->
                   CASE k = "protect-kernel-defaults" -> BoolField(TRUE)
                     [] k = "secrets-encryption" -> BoolField(TRUE)
                     [] k = "kube-apiserver-arg" -> ListField(KubeApiserverArg)
                     [] k = "kubelet-arg" -> ListField(KubeletArg(zone, id))
                     [] k = "node-label" -> ListField(acc.labels)]
    IN SortLists(TaintField(cfg, acc.taints))

\* ---- answers of the collaborators ----
SeqsUpTo(S, n) == UNION {[1..k -> S] : k \in 0..n}

Machines == {StrX86}

Lifecycles == {StrSpot, StrOnDemand}

TagKeys ==
    {TagLabelColonFoo, TagTaintDedicated, TagTaintColonSpecial,
     StrPunchkickerRole, TagName, TagLabelPublicIpType}

TagValues == {ValBar}

\* the Tags list of describe_instances
TagLists == SeqsUpTo(TagKeys \X TagValues, MaxTags)

IfaceKinds ==
    {Iface(TRUE, InPublicIp, TRUE), Iface(TRUE, InPublicIp, FALSE),
     Iface(TRUE, InOtherIp, TRUE), Iface(FALSE, None, FALSE)}

\* the NetworkInterfaces list of describe_instances; EC2 associates a public
\* IPv4 address with one interface only
IfaceLists ==
    {l \in SeqsUpTo(IfaceKinds, MaxIfaces) :
        Cardinality({i \in 1..Len(l) : l[i].public_ip = InPublicIp}) <= 1}

\* ---- lines written to standard error ----
Line(level, msg) == [level |-> level, msg |-> msg]

\* ---- state ----
VARIABLES
    source,         \* "committed": the file as it is; "comma141": with the comma line 141 lacks
    pc,             \* position of the run
    machine,        \* platform.machine()
    instance_id, az, region, instance_type, public_ipv4,
    capacity_type, is_eip, instance_tags, config,
    stdout, stderr, exit_code,
    calls,          \* the collaborator calls issued so far, in order
    outcome,        \* how each lookup ended
    answer          \* what the two elastic-IP lookups returned

vars ==
    <<source, pc, machine, instance_id, az, region, instance_type, public_ipv4,
      capacity_type, is_eip, instance_tags, config, stdout, stderr, exit_code,
      calls, outcome, answer>>

NoConfig == <<>>

\* the process before the interpreter has loaded the file.  The functions of
\* the file are modelled as they read with the comma after line 141 in place
\* (source = "comma141"); the file as committed (source = "committed") ends in
\* CompileFails
Init ==
    /\ source \in {"committed", "comma141"}
    /\ pc = "load"
    /\ machine \in Machines
    /\ instance_id = None /\ az = None /\ region = None /\ instance_type = None
    /\ public_ipv4 = None
    /\ capacity_type = None
    /\ is_eip = FALSE
    /\ instance_tags = <<>>
    /\ config = NoConfig
    /\ stdout = <<>> /\ stderr = <<>>
    /\ exit_code = -1
    /\ calls = <<>>
    /\ outcome = [ident |-> "pending", pubip |-> "pending", cap |-> "pending",
                  addr |-> "pending", inst |-> "pending", tags |-> "pending"]
    /\ answer = [addresses |-> 0, ifaces |-> <<>>]

\* ---- loading the file ----
\* lines 134-142: the 'kube-apiserver-arg' item is not followed by a comma, so
\* the file as committed does not compile; the interpreter reports the
\* SyntaxError and exits 1 before any statement of the script runs
CompileFails ==
    /\ pc = "load" /\ source = "committed"
    /\ stderr' = Append(stderr, Line("SyntaxError", "invalid syntax"))
    /\ exit_code' = 1
    /\ pc' = "exited"
    /\ UNCHANGED <<source, machine, instance_id, az, region, instance_type,
                   public_ipv4, capacity_type, is_eip, instance_tags, config,
                   stdout, calls, outcome, answer>>

\* with the comma in place: main() calls generate_k3s_config()
CompileOk ==
    /\ pc = "load" /\ source = "comma141"
    /\ pc' = "instance_id"
    /\ UNCHANGED <<source, machine, instance_id, az, region, instance_type,
                   public_ipv4, capacity_type, is_eip, instance_tags, config,
                   stdout, stderr, exit_code, calls, outcome, answer>>

\* ---- generate_k3s_config: the lookups (lines 109-128) ----
\* lines 111-114: an error raised by a fetch leaves the try block for the
\* handler of line 198
FetchInstanceId ==
    /\ pc = "instance_id"
    /\ calls' = Append(calls, "imds:instance_id")
    /\ \/ /\ instance_id' = InInstanceId /\ pc' = "az" /\ UNCHANGED outcome
       \/ /\ pc' = "except" /\ outcome' = [outcome EXCEPT !.ident = "instance_id"]
          /\ UNCHANGED instance_id
    /\ UNCHANGED <<source, machine, az, region, instance_type, public_ipv4,
                   capacity_type, is_eip, instance_tags, config, stdout, stderr,
                   exit_code, answer>>

FetchAz ==
    /\ pc = "az"
    /\ calls' = Append(calls, "imds:availability_zone")
    /\ \/ /\ az' = InAz /\ pc' = "region" /\ UNCHANGED outcome
       \/ /\ pc' = "except" /\ outcome' = [outcome EXCEPT !.ident = "availability_zone"]
          /\ UNCHANGED az
    /\ UNCHANGED <<source, machine, instance_id, region, instance_type, public_ipv4,
                   capacity_type, is_eip, instance_tags, config, stdout, stderr,
                   exit_code, answer>>

FetchRegion ==
    /\ pc = "region"
    /\ calls' = Append(calls, "imds:region")
    /\ \/ /\ region' = InRegion /\ pc' = "instance_type" /\ UNCHANGED outcome
       \/ /\ pc' = "except" /\ outcome' = [outcome EXCEPT !.ident = "region"]
          /\ UNCHANGED region
    /\ UNCHANGED <<source, machine, instance_id, az, instance_type, public_ipv4,
                   capacity_type, is_eip, instance_tags, config, stdout, stderr,
                   exit_code, answer>>

\* FetchInstanceType with the error of the fetch swallowed
FetchInstanceTypeSwallowed ==
    /\ pc = "instance_type"
    /\ calls' = Append(calls, "imds:instance_type")
    /\ \/ /\ instance_type' = InInstanceType /\ pc' = "public_ipv4"
          /\ outcome' = [outcome EXCEPT !.ident = "ok"]
       \/ /\ pc' = "public_ipv4" /\ outcome' = [outcome EXCEPT !.ident = "instance_type"]
          /\ UNCHANGED instance_type
    /\ UNCHANGED <<source, machine, instance_id, az, region, public_ipv4,
                   capacity_type, is_eip, instance_tags, config, stdout, stderr,
                   exit_code, answer>>

FetchInstanceType ==
    /\ pc = "instance_type"
    /\ calls' = Append(calls, "imds:instance_type")
    /\ \/ /\ instance_type' = InInstanceType /\ pc' = "public_ipv4"
          /\ outcome' = [outcome EXCEPT !.ident = "ok"]
       \/ /\ pc' = "except" /\ outcome' = [outcome EXCEPT !.ident = "instance_type"]
          /\ UNCHANGED instance_type
    /\ UNCHANGED <<source, machine, instance_id, az, region, public_ipv4,
                   capacity_type, is_eip, instance_tags, config, stdout, stderr,
                   exit_code, answer>>

\* lines 117-120: the bare except turns a failed fetch into None
FetchPublicIp ==
    /\ pc = "public_ipv4"
    /\ calls' = Append(calls, "imds:public_ipv4")
    /\ \/ /\ public_ipv4' = InPublicIp /\ outcome' = [outcome EXCEPT !.pubip = "ok"]
       \/ /\ public_ipv4' = None /\ outcome' = [outcome EXCEPT !.pubip = "absent"]
       \/ /\ public_ipv4' = None /\ outcome' = [outcome EXCEPT !.pubip = "raised"]
    /\ pc' = "capacity"
    /\ UNCHANGED <<source, machine, instance_id, az, region, instance_type,
                   capacity_type, is_eip, instance_tags, config, stdout, stderr,
                   exit_code, answer>>

\* lines 33-40 (called at line 125): nothing is printed when the fetch fails
get_capacity_type ==
    /\ pc = "capacity"
    /\ calls' = Append(calls, "imds:instance_life_cycle")
    /\ \/ \E lifecycle \in Lifecycles :
             /\ capacity_type' = ClassifyLifecycle(lifecycle)
             /\ outcome' = [outcome EXCEPT !.cap = "ok"]
       \/ /\ capacity_type' = StrOnDemand
          /\ outcome' = [outcome EXCEPT !.cap = "raised"]
    /\ pc' = "eip"
    /\ UNCHANGED <<source, machine, instance_id, az, region, instance_type,
                   public_ipv4, is_eip, instance_tags, config, stdout, stderr,
                   exit_code, answer>>

\* line 127 (and lines 66-67): without a public IP is_elastic_ip is not entered
SkipElasticIp ==
    /\ pc = "eip" /\ ~Truthy(public_ipv4)
    /\ is_eip' = FALSE
    /\ pc' = "tags"
    /\ UNCHANGED <<source, machine, instance_id, az, region, instance_type,
                   public_ipv4, capacity_type, instance_tags, config, stdout,
                   stderr, exit_code, calls, outcome, answer>>

WarnElastic == Line("Warning", "Could not determine if IP is elastic")

\* line 70: boto3.client raises; handler of lines 102-104
ElasticIpClientFails ==
    /\ pc = "eip" /\ Truthy(public_ipv4)
    /\ outcome' = [outcome EXCEPT !.addr = "no_client"]
    /\ stderr' = Append(stderr, WarnElastic)
    /\ is_eip' = FALSE
    /\ pc' = "tags"
    /\ UNCHANGED <<source, machine, instance_id, az, region, instance_type,
                   public_ipv4, capacity_type, instance_tags, config, stdout,
                   exit_code, calls, answer>>

\* lines 72-82, method 1: describe_addresses(PublicIps=[public_ip])
DescribeAddresses ==
    /\ pc = "eip" /\ Truthy(public_ipv4)
    /\ calls' = Append(calls, "ec2:describe_addresses")
    /\ \/ \E n \in 0..MaxAddresses :
             /\ answer' = [answer EXCEPT !.addresses = n]
             /\ outcome' = [outcome EXCEPT !.addr = "returned"]
             /\ IF n > 0
                THEN is_eip' = TRUE /\ pc' = "tags"
                ELSE UNCHANGED is_eip /\ pc' = "describe_instances"
             /\ UNCHANGED stderr
       \/ \* ClientError InvalidAddress.NotFound: printed, then method 2
          /\ outcome' = [outcome EXCEPT !.addr = "not_found"]
          /\ stderr' = Append(stderr, Line("Debug", "IP not found in EIP allocations"))
          /\ pc' = "describe_instances"
          /\ UNCHANGED <<is_eip, answer>>
       \/ \* any other ClientError: printed, then method 2
          /\ outcome' = [outcome EXCEPT !.addr = "client_error"]
          /\ stderr' = Append(stderr, Line("Debug", "Error checking addresses"))
          /\ pc' = "describe_instances"
          /\ UNCHANGED <<is_eip, answer>>
       \/ \* an error that is no ClientError: handler of lines 102-104
          /\ outcome' = [outcome EXCEPT !.addr = "raised"]
          /\ stderr' = Append(stderr, WarnElastic)
          /\ is_eip' = FALSE
          /\ pc' = "tags"
          /\ UNCHANGED answer
    /\ UNCHANGED <<source, machine, instance_id, az, region, instance_type,
                   public_ipv4, capacity_type, instance_tags, config, stdout,
                   exit_code>>

\* InterfacesResult taking a matching association for an Elastic IP
InterfacesResultAnyMatch(ifaces, ip) == ScanInterfaces(ifaces, ip).matched

\* the value is_elastic_ip returns from an instance's interfaces, lines 90-101
InterfacesResult(ifaces, ip) == ScanInterfaces(ifaces, ip).result

\* the two lines printed when an interface matches, lines 97-98
InterfacesDebug(ifaces, ip) ==
    IF ScanInterfaces(ifaces, ip).matched
    THEN <<Line("Debug", "Network interface association"),
           Line("Debug", "Has AllocationId")>>
    ELSE <<>>

\* DescribeInstancesForIp without the handler of lines 102-104: the error
\* reaches the handler of line 198
DescribeInstancesForIpPropagates ==
    /\ pc = "describe_instances"
    /\ calls' = Append(calls, "ec2:describe_instances:interfaces")
    /\ \/ /\ outcome' = [outcome EXCEPT !.inst = "raised"]
          /\ pc' = "except"
          /\ UNCHANGED <<stderr, is_eip, answer>>
       \/ /\ outcome' = [outcome EXCEPT !.inst = "no_reservations"]
          /\ is_eip' = FALSE
          /\ pc' = "tags"
          /\ UNCHANGED <<stderr, answer>>
       \/ \E ifaces \in IfaceLists :
             /\ outcome' = [outcome EXCEPT !.inst = "returned"]
             /\ answer' = [answer EXCEPT !.ifaces = ifaces]
             /\ is_eip' = ScanInterfaces(ifaces, public_ipv4).result
             /\ stderr' = stderr
             /\ pc' = "tags"
    /\ UNCHANGED <<source, machine, instance_id, az, region, instance_type,
                   public_ipv4, capacity_type, instance_tags, config, stdout,
                   exit_code>>

\* lines 84-101, method 2: describe_instances(InstanceIds=[instance_id])
DescribeInstancesForIp ==
    /\ pc = "describe_instances"
    /\ calls' = Append(calls, "ec2:describe_instances:interfaces")
    /\ \/ \* the call raises: handler of lines 102-104
          /\ outcome' = [outcome EXCEPT !.inst = "raised"]
          /\ stderr' = Append(stderr, WarnElastic)
          /\ is_eip' = FALSE
          /\ UNCHANGED answer
       \/ \* no reservation
          /\ outcome' = [outcome EXCEPT !.inst = "no_reservations"]
          /\ is_eip' = FALSE
          /\ UNCHANGED <<stderr, answer>>
       \/ \* an instance; one without 'NetworkInterfaces' reads as []
          \E ifaces \in IfaceLists :
             /\ outcome' = [outcome EXCEPT !.inst = "returned"]
             /\ answer' = [answer EXCEPT !.ifaces = ifaces]
             /\ is_eip' = InterfacesResult(ifaces, public_ipv4)
             /\ stderr' = stderr \o InterfacesDebug(ifaces, public_ipv4)
    /\ pc' = "tags"
    /\ UNCHANGED <<source, machine, instance_id, az, region, instance_type,
                   public_ipv4, capacity_type, instance_tags, config, stdout,
                   exit_code>>

WarnTags == Line("Warning", "Could not fetch instance tags")

\* get_instance_tags with the print of line 60 left out
get_instance_tags_silent ==
    /\ pc = "tags"
    /\ \/ /\ outcome' = [outcome EXCEPT !.tags = "no_client"]
          /\ instance_tags' = <<>>
          /\ UNCHANGED calls
       \/ /\ calls' = Append(calls, "ec2:describe_instances:tags")
          /\ outcome' = [outcome EXCEPT !.tags = "raised"]
          /\ instance_tags' = <<>>
       \/ /\ calls' = Append(calls, "ec2:describe_instances:tags")
          /\ outcome' = [outcome EXCEPT !.tags = "no_reservations"]
          /\ instance_tags' = <<>>
       \/ \E tags \in TagLists :
             /\ calls' = Append(calls, "ec2:describe_instances:tags")
             /\ outcome' = [outcome EXCEPT !.tags = "returned"]
             /\ instance_tags' = TagsToDict(tags)
    /\ pc' = "build"
    /\ UNCHANGED <<source, machine, instance_id, az, region, instance_type,
                   public_ipv4, capacity_type, is_eip, config, stdout, stderr,
                   exit_code, answer>>

\* lines 43-61 (called at line 128)
get_instance_tags ==
    /\ pc = "tags"
    /\ \/ \* boto3.client raises
          /\ outcome' = [outcome EXCEPT !.tags = "no_client"]
          /\ stderr' = Append(stderr, WarnTags)
          /\ instance_tags' = <<>>
          /\ UNCHANGED calls
       \/ \* describe_instances raises
          /\ calls' = Append(calls, "ec2:describe_instances:tags")
          /\ outcome' = [outcome EXCEPT !.tags = "raised"]
          /\ stderr' = Append(stderr, WarnTags)
          /\ instance_tags' = <<>>
       \/ \* no reservation
          /\ calls' = Append(calls, "ec2:describe_instances:tags")
          /\ outcome' = [outcome EXCEPT !.tags = "no_reservations"]
          /\ instance_tags' = <<>>
          /\ UNCHANGED stderr
       \/ \* an instance; one without 'Tags' reads as []
          \E tags \in TagLists :
             /\ calls' = Append(calls, "ec2:describe_instances:tags")
             /\ outcome' = [outcome EXCEPT !.tags = "returned"]
             /\ instance_tags' = TagsToDict(tags)
             /\ UNCHANGED stderr
    /\ pc' = "build"
    /\ UNCHANGED <<source, machine, instance_id, az, region, instance_type,
                   public_ipv4, capacity_type, is_eip, config, stdout,
                   exit_code, answer>>

\* lines 130-196, then main (lines 206-210): the config is built, sorted and
\* returned, main prints the document and the process ends with code 0
BuildAndPrint ==
    /\ pc = "build"
    /\ config' = MakeConfig(instance_id, az, region, instance_type, public_ipv4,
                            machine, capacity_type, is_eip, instance_tags)
    /\ stdout' = Append(stdout, config')
    /\ exit_code' = 0
    /\ pc' = "exited"
    /\ UNCHANGED <<source, machine, instance_id, az, region, instance_type,
                   public_ipv4, capacity_type, is_eip, instance_tags, stderr,
                   calls, outcome, answer>>

\* HandleError without the sys.exit of line 201: generate_k3s_config returns
\* None and main prints it
HandleErrorReturns ==
    /\ pc = "except"
    /\ stderr' = stderr \o <<Line("Error", "Error fetching EC2 metadata"),
                             Line("Error", "Make sure you're running on an EC2 instance with IMDSv2 enabled.")>>
    /\ stdout' = Append(stdout, NoConfig)
    /\ exit_code' = 0
    /\ pc' = "exited"
    /\ UNCHANGED <<source, machine, instance_id, az, region, instance_type,
                   public_ipv4, capacity_type, is_eip, instance_tags, config,
                   calls, outcome, answer>>

\* lines 198-201: the handler of generate_k3s_config
HandleError ==
    /\ pc = "except"
    /\ stderr' = stderr \o <<Line("Error", "Error fetching EC2 metadata"),
                             Line("Error", "Make sure you're running on an EC2 instance with IMDSv2 enabled.")>>
    /\ exit_code' = 1
    /\ pc' = "exited"
    /\ UNCHANGED <<source, machine, instance_id, az, region, instance_type,
                   public_ipv4, capacity_type, is_eip, instance_tags, config,
                   stdout, calls, outcome, answer>>

Next ==
    \/ CompileFails
    \/ CompileOk
    \/ FetchInstanceId
    \/ FetchAz
    \/ FetchRegion
    \/ FetchInstanceType
    \/ FetchPublicIp
    \/ get_capacity_type
    \/ SkipElasticIp
    \/ ElasticIpClientFails
    \/ DescribeAddresses
    \/ DescribeInstancesForIp
    \/ get_instance_tags
    \/ BuildAndPrint
    \/ HandleError

Spec == Init /\ [][Next]_vars

\* ======================= properties =======================
HasConfig == DOMAIN config # {}

NodeLabel == config["node-label"].val

Count(l, x) == Cardinality({i \in 1..Len(l) : l[i] = x})

\* the two lists hold the same entries, each as many times
SameBag(l1, l2) ==
    /\ Len(l1) = Len(l2)
    /\ \A i \in 1..Len(l1) : Count(l1, l1[i]) = Count(l2, l1[i])

\* a <= b in the lexicographic order of code points: a is a prefix of b, or
\* at the first position where they differ a has the smaller code point
LexLeq(a, b) ==
    LET n == IF Len(a) < Len(b) THEN Len(a) ELSE Len(b)
    IN IF SubSeq(a, 1, n) = SubSeq(b, 1, n) THEN Len(a) <= Len(b)
       ELSE LET i == CHOOSE j \in 1..n : a[j] # b[j] /\ SubSeq(a, 1, j - 1) = SubSeq(b, 1, j - 1)
            IN a[i] < b[i]

IsAscending(l) == \A i \in 1..(Len(l) - 1) : LexLeq(l[i], l[i + 1])

\* a tag key with every '::' replaced by '/'
Normalized(key) == Replace(key, StrColonColon, Slash)

\* '{rest}={value}' for each tag whose normalized key starts with prefix
RECURSIVE EntriesOf(_, _)
EntriesOf(items, prefix) ==
    IF items = <<>> THEN <<>>
    ELSE LET key == Normalized(items[1][1])
         IN (IF StartsWith(key, prefix)
             THEN <<DropPrefix(key, Len(prefix)) \o StrEq \o items[1][2]>>
             ELSE <<>>) \o EntriesOf(Tail(items), prefix)

IsPublicIpLabel(l) == StartsWith(l, LblPublicIp) \/ StartsWith(l, LblPublicIpType)

CountPrefix(l, prefix) == Cardinality({i \in 1..Len(l) : StartsWith(l[i], prefix)})

Called(c) == \E i \in 1..Len(calls) : calls[i] = c

ElasticIpCalls == {"ec2:describe_addresses", "ec2:describe_instances:interfaces"}

Ec2Calls == ElasticIpCalls \cup {"ec2:describe_instances:tags"}

IdentityCalls ==
    {"imds:instance_id", "imds:availability_zone", "imds:region", "imds:instance_type"}

IdentityFailed == outcome.ident \in IdentityCalls \cup {"instance_id", "availability_zone", "region", "instance_type"}

Logged(line) == \E i \in 1..Len(stderr) : stderr[i] = line

LoggedLevel(levels) == \E i \in 1..Len(stderr) : stderr[i].level \in levels

\* some interface has an association with the public IP that carries an
\* allocation identifier
AllocatedInterface ==
    \E i \in 1..Len(answer.ifaces) :
        /\ answer.ifaces[i].has_assoc
        /\ answer.ifaces[i].public_ip = public_ipv4
        /\ answer.ifaces[i].has_alloc

\* C1: every list-valued field of a returned config (kube-apiserver-arg,
\* kubelet-arg, node-label, and node-taint when present) is in ascending
\* lexicographic order
C1_ListsSorted ==
    HasConfig =>
        /\ {"kube-apiserver-arg", "kubelet-arg", "node-label"} \subseteq DOMAIN config
        /\ \A k \in DOMAIN config \cap {"kube-apiserver-arg", "kubelet-arg",
                                         "node-label", "node-taint"} :
              config[k].type = "list"
        /\ \A k \in DOMAIN config : config[k].type = "list" => IsAscending(config[k].val)

\* a printed config with a public IP whose two taints came from the tags in
\* descending order
C1_Witness ==
    /\ pc = "exited" /\ stdout = <<config>> /\ HasConfig
    /\ Truthy(public_ipv4)
    /\ Len(instance_tags) = 2
    /\ instance_tags[1][1] = TagTaintColonSpecial
    /\ instance_tags[2][1] = TagTaintDedicated
    /\ "node-taint" \in DOMAIN config /\ Len(config["node-taint"].val) = 2

\* C2: when the fetch of the instance id, the availability zone, the region or
\* the instance type fails, a diagnostic goes to standard error, the process
\* exits with code 1 and nothing is ever written to standard output
C2_IdentityFailureFatal ==
    IdentityFailed =>
        /\ stdout = <<>>
        /\ ~HasConfig
        /\ pc \in {"except", "exited"}
        /\ pc = "exited" => exit_code = 1 /\ LoggedLevel({"Error"})

C2_Witness ==
    /\ pc = "exited" /\ outcome.ident = "region"
    /\ exit_code = 1 /\ LoggedLevel({"Error"}) /\ stdout = <<>>

\* C3: a run ends fatally only when an identity fetch failed; when the four
\* identity facts resolved the run ends with the document printed and code 0,
\* with no tags after a failed tag lookup, public-ip-type 'ephemeral' after a
\* failed elastic-IP determination and capacity-type 'on-demand' after a failed
\* lifecycle lookup
C3_AlwaysCompletes ==
    pc = "exited" =>
        /\ exit_code # 0 => IdentityFailed
        /\ ~IdentityFailed =>
              /\ exit_code = 0 /\ HasConfig /\ stdout = <<config>>
              /\ outcome.tags \in {"raised", "no_client"} => instance_tags = <<>>
              /\ outcome.cap = "raised" =>
                    Count(NodeLabel, LblCapacityType \o StrOnDemand) = 1
              /\ (outcome.addr \in {"raised", "no_client"} \/ outcome.inst = "raised") =>
                    Count(NodeLabel, LblPublicIpType \o StrEphemeral) = 1

NoElasticIpError ==
    /\ outcome.addr = "returned"
    /\ outcome.inst \in {"pending", "returned", "no_reservations"}

\* the answers make the address an Elastic IP: (a) the address lookup returned
\* an address, or (b) it returned none and an interface of the instance has an
\* association with the public IP that carries an allocation identifier
AnswersSayElastic ==
    \/ answer.addresses > 0
    \/ answer.addresses = 0 /\ outcome.inst = "returned" /\ AllocatedInterface

ElasticIpDecided == pc \in {"tags", "build", "exited"} /\ outcome.addr # "pending"

ExpectedFixedLabels ==
    BaseLabels(region, az, instance_type, machine, capacity_type)
        \o (IF Truthy(public_ipv4)
            THEN <<LblPublicIp \o public_ipv4,
                   LblPublicIpType \o (IF is_eip THEN StrElastic ELSE StrEphemeral)>>
            ELSE <<>>)
        \o (IF DictHas(instance_tags, StrPunchkickerRole)
            THEN <<LblPunchkickerRole \o DictGet(instance_tags, StrPunchkickerRole)>>
            ELSE <<>>)

ConfigKeys ==
    {"protect-kernel-defaults", "secrets-encryption", "kube-apiserver-arg",
     "kubelet-arg", "node-label", "node-taint"}

\* C8: node-label holds exactly the identity labels, the public-ip labels and
\* the punchkicker-role label where they apply, and one entry '{rest}={value}'
\* per tag whose normalized key starts with 'label/'; a tag whose normalized
\* key starts with neither 'label/' nor 'taint/' adds nothing else to any field
C8_NodeLabelEntries ==
    HasConfig =>
        /\ DOMAIN config \subseteq ConfigKeys
        /\ SameBag(NodeLabel,
                   ExpectedFixedLabels \o EntriesOf(instance_tags, StrLabelPrefix))
        /\ SameBag(config["kubelet-arg"].val, KubeletArg(az, instance_id))
        /\ SameBag(config["kube-apiserver-arg"].val, KubeApiserverArg)
        /\ config["protect-kernel-defaults"] = BoolField(TRUE)
        /\ config["secrets-encryption"] = BoolField(TRUE)
        /\ "node-taint" \in DOMAIN config =>
              Len(config["node-taint"].val)
                  = Len(EntriesOf(instance_tags, StrTaintPrefix))

C8_Witness ==
    /\ pc = "exited" /\ stdout = <<config>>
    /\ DictHas(instance_tags, TagName) /\ DictHas(instance_tags, TagLabelColonFoo)
    /\ Len(NodeLabel) = 12

\* C9: the config has the field node-taint exactly when some tag's normalized
\* key starts with 'taint/'; the field then holds one entry '{rest}={value}'
\* per such tag and nothing else, and no taint tag adds an entry to node-label
C9_NodeTaintEntries ==
    HasConfig =>
        LET taints == EntriesOf(instance_tags, StrTaintPrefix)
        IN /\ "node-taint" \in DOMAIN config <=> taints # <<>>
           /\ "node-taint" \in DOMAIN config =>
                 /\ config["node-taint"].type = "list"
                 /\ SameBag(config["node-taint"].val, taints)
           /\ Len(NodeLabel) = Len(ExpectedFixedLabels)
                                  + Len(EntriesOf(instance_tags, StrLabelPrefix))

C9_Witness ==
    /\ pc = "exited" /\ stdout = <<config>>
    /\ instance_tags = <<<<TagTaintColonSpecial, ValBar>>>>
    /\ "node-taint" \in DOMAIN config
    /\ Len(config["node-taint"].val) = 1
    /\ Len(NodeLabel) = 11

\* the elastic-IP determination of line 127 has ended
ElasticIpFinished ==
    \/ ~Truthy(public_ipv4)
    \/ outcome.addr \in {"raised", "no_client"}
    \/ outcome.addr = "returned" /\ answer.addresses > 0
    \/ outcome.inst # "pending"

\* C10: an EC2 API call is made only after the instance id, the availability
\* zone, the region and the instance type were all fetched; the tag lookup is
\* made after the elastic-IP determination has ended; after a failed identity
\* fetch no EC2 API call is made
C10_LookupOrder ==
    /\ \A i \in 1..Len(calls) :
          calls[i] \in Ec2Calls =>
              /\ outcome.ident = "ok"
              /\ instance_id # None /\ az # None /\ region # None /\ instance_type # None
              /\ \A c \in IdentityCalls : \E j \in 1..(i - 1) : calls[j] = c
    /\ \A i \in 1..Len(calls) :
          calls[i] = "ec2:describe_instances:tags" =>
              /\ ElasticIpFinished
              /\ outcome.pubip # "pending"
              /\ \A j \in (i + 1)..Len(calls) : calls[j] \notin ElasticIpCalls
    /\ pc \in {"build", "exited"} /\ outcome.ident = "ok" => ElasticIpFinished
    /\ IdentityFailed => \A i \in 1..Len(calls) : calls[i] \notin Ec2Calls

C10_Witness ==
    /\ pc = "exited" /\ stdout = <<config>>
    /\ calls = <<"imds:instance_id", "imds:availability_zone", "imds:region",
                 "imds:instance_type", "imds:public_ipv4", "imds:instance_life_cycle",
                 "ec2:describe_addresses", "ec2:describe_instances:interfaces",
                 "ec2:describe_instances:tags">>
====
